---- MODULE Spec2Model ----
(***************************************************************************)
(* Model of src/fetch_nse_oi.py: the NSE open-interest scraper.  One run   *)
(* gates on the holiday calendar, opens a session, fetches the master      *)
(* stock-futures list and the OI-spurts list, merges them by symbol and    *)
(* writes the result to DynamoDB.                                          *)
(*                                                                         *)
(* Python values are modelled as tagged records: None, a number, or a      *)
(* string kept as its sequence of characters, so that str(), the comma     *)
(* stripping and float() of get_robust_val are computed on characters.     *)
(* A dict is a function from its keys (field names) to values.             *)
(***************************************************************************)
EXTENDS Integers, Sequences, FiniteSets, TLC

VARIABLES
    pc,           \* position of the run in __main__ / get_merged_nse_data
    holiday,      \* what is_nse_holiday() answers today
    sessionOk,    \* whether the cookie request of create_session succeeds
    envMaster,    \* what the master endpoint answers when asked
    envOi,        \* what the OI-spurts endpoint answers when asked
    master_resp,  \* master_resp of get_merged_nse_data (its items are mutated in place)
    oi_resp,      \* oi_resp of get_merged_nse_data
    final_map,    \* final_map of get_merged_nse_data when the merge loop ends
    first_map,    \* the final_map of the first merge, kept when the merge is run again
    fetches,      \* the fetch_data calls made so far, in order
    saved,        \* the collections handed to save_to_dynamodb, in order
    written,      \* the collections put_item stored, in order
    exitCode,     \* << >> while the process runs, then << its exit status >>
    item,         \* argument of a direct get_robust_val call
    keys_to_try,  \* argument of a direct get_robust_val call
    result        \* what that call returned

vars == << pc, holiday, sessionOk, envMaster, envOi, master_resp, oi_resp,
           final_map, first_map, fetches, saved, written, exitCode,
           item, keys_to_try, result >>

-----------------------------------------------------------------------------
(* Bounds *)

\* total number of records the two payloads of one run carry
MaxRecs == 2

\* longest string value handed to get_robust_val directly
MaxStrLen == 2

-----------------------------------------------------------------------------
(* Python values *)

None == [t |-> "none", n |-> 0, s |-> << >>]

\* a Python int
PyInt(n) == [t |-> "int", n |-> n, s |-> << >>]

\* a Python float; the floats of the model are whole numbers
PyFloat(n) == [t |-> "float", n |-> n, s |-> << >>]

Str(s) == [t |-> "str", n |-> 0, s |-> s]

IsNumber(v) == v.t \in {"int", "float"}

\* x == y of Python: an int and a float of the same value are equal
PyEq(x, y) == IF IsNumber(x) /\ IsNumber(y) THEN x.n = y.n ELSE x = y

\* truth value of a Python object, as `if sym:` tests it
Truthy(v) ==
    CASE v.t = "none" -> FALSE
      [] IsNumber(v)  -> v.n # 0
      [] v.t = "str"  -> v.s # << >>

\* dict.get(key): None when the key is absent
Get(d, k) == IF k \in DOMAIN d THEN d[k] ELSE None

\* d[k] = v
Put(d, k, v) == [x \in DOMAIN d \cup {k} |-> IF x = k THEN v ELSE d[x]]

\* d.update(e): every key of e overwrites or is added
Update(d, e) == [x \in DOMAIN d \cup DOMAIN e |-> IF x \in DOMAIN e THEN e[x] ELSE d[x]]

Digits == <<"0", "1", "2", "3", "4", "5", "6", "7", "8", "9">>

IsDigit(c) == \E i \in 1..Len(Digits) : Digits[i] = c

DigitVal(c) == (CHOOSE i \in 1..Len(Digits) : Digits[i] = c) - 1

RECURSIVE NatStr(_)
\* decimal digits of a natural number
NatStr(n) ==
    IF n < 10 THEN << Digits[n + 1] >>
    ELSE Append(NatStr(n \div 10), Digits[(n % 10) + 1])

\* str(n) of an int
IntStr(n) == IF n < 0 THEN << "-" >> \o NatStr(0 - n) ELSE NatStr(n)

\* str(x): the text of a string is itself, an int prints in decimal, a whole
\* float prints with ".0" after it
PyStr(v) ==
    CASE v.t = "str"   -> v.s
      [] v.t = "int"   -> IntStr(v.n)
      [] v.t = "float" -> IntStr(v.n) \o << ".", "0" >>
      [] v.t = "none"  -> << "N", "o", "n", "e" >>

\* s.replace(',', '')
RemoveCommas(s) == SelectSeq(s, LAMBDA c : c # ",")

RECURSIVE DigitsVal(_)
DigitsVal(s) ==
    IF s = << >> THEN 0
    ELSE 10 * DigitsVal(SubSeq(s, 1, Len(s) - 1)) + DigitVal(s[Len(s)])

AllDigits(s) == \A i \in 1..Len(s) : IsDigit(s[i])

\* the literal without its sign
Unsigned(s) == IF s # << >> /\ s[1] \in {"-", "+"} THEN Tail(s) ELSE s

\* position of the first "." of s, Len(s) + 1 when it has none
DotAt(s) ==
    IF \E i \in 1..Len(s) : s[i] = "."
    THEN CHOOSE i \in 1..Len(s) : s[i] = "." /\ \A j \in 1..(i - 1) : s[j] # "."
    ELSE Len(s) + 1

WholePart(s) == SubSeq(s, 1, DotAt(s) - 1)

FractionPart(s) == SubSeq(s, DotAt(s) + 1, Len(s))

\* whether float(s) succeeds, over the characters the model uses: an optional
\* sign, digits, and an optional "." with digits after it, at least one digit
\* in all
FloatOk(s) ==
    LET u == Unsigned(s)
    IN  /\ AllDigits(WholePart(u))
        /\ AllDigits(FractionPart(u))
        /\ Len(WholePart(u)) + Len(FractionPart(u)) > 0

\* float(s) where it succeeds; the only fraction the strings of the model
\* carry is the ".0" that str() of a float prints
FloatOf(s) ==
    LET whole == DigitsVal(WholePart(Unsigned(s)))
    IN  IF s[1] = "-" THEN 0 - whole ELSE whole

-----------------------------------------------------------------------------
(* get_robust_val *)

\* the body of the try block succeeds for key k
CoerceOk(it, k) == FloatOk(RemoveCommas(PyStr(it[k])))

Coerce(it, k) == PyFloat(FloatOf(RemoveCommas(PyStr(it[k]))))

\* the condition of the if statement
PresentNonNull(it, k) == k \in DOMAIN it /\ it[k] # None

RECURSIVE get_robust_val_gives_up(_, _)
\* get_robust_val without the `continue`: a failed coercion ends the search
get_robust_val_gives_up(it, keys) ==
    IF keys = << >> THEN PyInt(0)
    ELSE IF PresentNonNull(it, Head(keys))
         THEN IF CoerceOk(it, Head(keys)) THEN Coerce(it, Head(keys)) ELSE PyInt(0)
         ELSE get_robust_val_gives_up(it, Tail(keys))

RECURSIVE get_robust_val(_, _)
get_robust_val(it, keys) ==
    IF keys = << >> THEN PyInt(0)
    ELSE IF PresentNonNull(it, Head(keys)) /\ CoerceOk(it, Head(keys))
         THEN Coerce(it, Head(keys))
         ELSE get_robust_val(it, Tail(keys))

-----------------------------------------------------------------------------
(* Strings of the program *)

OI_SPURTS == Str(<< "O", "I", "_", "S", "P", "U", "R", "T", "S" >>)

MERGED == Str(<< "M", "E", "R", "G", "E", "D" >>)

MASTER_ONLY == Str(<< "M", "A", "S", "T", "E", "R", "_", "O", "N", "L", "Y" >>)

\* alias lists of the OI-spurts extraction
OiPctKeys == << "pchangeinOpenInterest", "pChangeInOI", "pChangeInOpenInterest",
                "percentChange", "pChgInOI" >>

OiChangeKeys == << "changeinOpenInterest", "changeInOI", "changeInOpenInterest", "chgInOI" >>

OiOpenInterestKeys == << "openInterest", "futureOpenInterest", "totOI", "totalOpenInterest" >>

OiLastPriceKeys == << "latestPrice", "lastPrice", "ltp" >>

\* the master percentage aliases with the first one misspelt as the change alias
MasterPctKeysMisspelt == << "changeinOpenInterest", "pChangeInOI", "pChange" >>

\* alias lists of the master-only extraction
MasterPctKeys == << "pchangeinOpenInterest", "pChangeInOI", "pChange" >>

MasterChangeKeys == << "changeinOpenInterest", "changeInOI", "change" >>

-----------------------------------------------------------------------------
(* Responses of fetch_data *)

Unfetched == [kind |-> "unfetched", hasData |-> FALSE, data |-> << >>]

\* fetch_data returned None: a status other than 200, or an exception
Failed == [kind |-> "none", hasData |-> FALSE, data |-> << >>]

\* a JSON object without a "data" member
NoData == [kind |-> "json", hasData |-> FALSE, data |-> << >>]

\* a JSON object whose "data" member is the list d
Payload(d) == [kind |-> "json", hasData |-> TRUE, data |-> d]

\* `resp and "data" in resp`
HasData(resp) == resp.kind = "json" /\ resp.hasData

-----------------------------------------------------------------------------
(* Ordered dicts: a sequence of entries [k, v] in insertion order *)

HasKey(m, k) == \E j \in 1..Len(m) : m[j].k = k

IndexOf(m, k) == CHOOSE j \in 1..Len(m) : m[j].k = k

Lookup(m, k) == m[IndexOf(m, k)].v

\* m[k] = v: an existing key keeps its place
DictPut(m, k, v) ==
    IF HasKey(m, k) THEN [m EXCEPT ![IndexOf(m, k)].v = v]
    ELSE Append(m, [k |-> k, v |-> v])

\* list(m.values())
Values(m) == [j \in 1..Len(m) |-> m[j].v]

Keys(m) == {m[j].k : j \in 1..Len(m)}

-----------------------------------------------------------------------------
(* get_merged_nse_data, STEP 1: master_map.  An entry holds the index of   *)
(* the master item in master_resp["data"], because the dict holds the     *)
(* item itself and the merge writes into it.                               *)

RECURSIVE BuildMasterMapBySymbol(_, _, _)
\* master_map keyed by the OI feed's field name instead of "underlying"
BuildMasterMapBySymbol(data, i, m) ==
    IF i > Len(data) THEN m
    ELSE LET sym == Get(data[i], "symbol")
         IN  BuildMasterMapBySymbol(data, i + 1,
                                    IF Truthy(sym) THEN DictPut(m, sym, i) ELSE m)

RECURSIVE BuildMasterMap(_, _, _)
BuildMasterMap(data, i, m) ==
    IF i > Len(data) THEN m
    ELSE LET sym == Get(data[i], "underlying")
         IN  BuildMasterMap(data, i + 1,
                            IF Truthy(sym) THEN DictPut(m, sym, i) ELSE m)

master_map_of(resp) ==
    IF HasData(resp) THEN BuildMasterMap(resp.data, 1, << >>) ELSE << >>

oi_list_of(resp) == IF HasData(resp) THEN resp.data ELSE << >>

-----------------------------------------------------------------------------
(* STEP 3, first loop: one record per OI-spurts item *)

OiRecord(oi_item, sym) ==
    [ underlying            |-> sym,
      symbol                |-> sym,
      pChangeInOpenInterest |-> get_robust_val(oi_item, OiPctKeys),
      changeinOpenInterest  |-> get_robust_val(oi_item, OiChangeKeys),
      openInterest          |-> get_robust_val(oi_item, OiOpenInterestKeys),
      lastPrice             |-> get_robust_val(oi_item, OiLastPriceKeys),
      source                |-> OI_SPURTS ]

RECURSIVE SeedFromOi(_, _, _)
SeedFromOi(oi_list, i, fm) ==
    IF i > Len(oi_list) THEN fm
    ELSE LET sym == Get(oi_list[i], "symbol")
         IN  SeedFromOi(oi_list, i + 1,
                        IF Truthy(sym) THEN DictPut(fm, sym, OiRecord(oi_list[i], sym))
                        ELSE fm)

-----------------------------------------------------------------------------
(* STEP 3, second loop: overlay of the master items *)

\* the merged branch without its last line: the source tag is whatever the
\* update left
OverlayMergedUntagged(rec, master_item) ==
    LET p_change_oi == rec["pChangeInOpenInterest"]
        change_oi   == rec["changeinOpenInterest"]
        oi_val      == rec["openInterest"]
        u  == Update(rec, master_item)
        r1 == IF ~PyEq(p_change_oi, PyInt(0)) THEN Put(u, "pChangeInOpenInterest", p_change_oi) ELSE u
        r2 == IF ~PyEq(change_oi, PyInt(0)) THEN Put(r1, "changeinOpenInterest", change_oi) ELSE r1
    IN  IF ~PyEq(oi_val, PyInt(0)) THEN Put(r2, "openInterest", oi_val) ELSE r2

\* the branch `if sym in final_map`
OverlayMerged(rec, master_item) ==
    LET p_change_oi == rec["pChangeInOpenInterest"]
        change_oi   == rec["changeinOpenInterest"]
        oi_val      == rec["openInterest"]
        u  == Update(rec, master_item)
        r1 == IF ~PyEq(p_change_oi, PyInt(0)) THEN Put(u, "pChangeInOpenInterest", p_change_oi) ELSE u
        r2 == IF ~PyEq(change_oi, PyInt(0)) THEN Put(r1, "changeinOpenInterest", change_oi) ELSE r1
        r3 == IF ~PyEq(oi_val, PyInt(0)) THEN Put(r2, "openInterest", oi_val) ELSE r2
    IN  Put(r3, "source", MERGED)

\* the else branch: the master item itself, written in place
OverlayMasterOnly(master_item) ==
    LET m1 == Put(master_item, "pChangeInOpenInterest",
                  get_robust_val(master_item, MasterPctKeys))
        m2 == Put(m1, "changeinOpenInterest", get_robust_val(m1, MasterChangeKeys))
    IN  Put(m2, "source", MASTER_ONLY)

RECURSIVE Overlay(_, _, _, _)
\* fm is final_map so far, data the master items after the writes made so far
Overlay(mm, j, fm, data) ==
    IF j > Len(mm) THEN [fm |-> fm, data |-> data]
    ELSE LET sym == mm[j].k
             idx == mm[j].v
         IN  IF HasKey(fm, sym)
             THEN Overlay(mm, j + 1,
                          DictPut(fm, sym, OverlayMerged(Lookup(fm, sym), data[idx])),
                          data)
             ELSE LET master_item == OverlayMasterOnly(data[idx])
                  IN  Overlay(mm, j + 1,
                              DictPut(fm, sym, master_item),
                              [data EXCEPT ![idx] = master_item])

\* final_map and the master items as the merge leaves them
MergeResult(mresp, oresp) ==
    Overlay(master_map_of(mresp), 1, SeedFromOi(oi_list_of(oresp), 1, << >>), mresp.data)

-----------------------------------------------------------------------------
(* Inputs: the records the two endpoints may answer with *)

\* every dict whose keys are some of the fields of ch, each with one of its values
RecordsOver(ch) ==
    UNION { { r \in [D -> UNION {ch[f] : f \in D}] : \A f \in D : r[f] \in ch[f] }
            : D \in SUBSET (DOMAIN ch) }

\* every list of exactly n records of R
ListsOf(R, n) == [1..n -> R]

\* every answer of an endpoint that carries exactly n records of R
ResponsesOf(R, n) ==
    {Payload(d) : d \in ListsOf(R, n)} \cup (IF n = 0 THEN {Failed, NoData} ELSE {})

SymX == Str(<< "X" >>)

SymY == Str(<< "Y" >>)

\* records that differ in their symbols and in the fields the overlay copies
OiItemsKeys ==
    RecordsOver([ symbol       |-> {Str(<< >>), SymX, SymY},
                  openInterest |-> {PyInt(5)} ])

MasterItemsKeys ==
    RecordsOver([ underlying |-> {Str(<< >>), SymX, SymY},
                  symbol     |-> {SymY},
                  source     |-> {OI_SPURTS} ])

\* records of known symbols that differ in their numeric fields
OiItemsFields ==
    { Put(r, "symbol", SymX) :
        r \in RecordsOver([ changeInOI   |-> {PyInt(0), PyInt(1)},
                            openInterest |-> {PyInt(5)},
                            lastPrice    |-> {PyInt(5)} ]) }

MasterItemsFields ==
    { Put(r, "underlying", u) :
        r \in RecordsOver([ changeinOpenInterest |-> {Str(<< "-" >>), PyInt(5)},
                            change               |-> {PyInt(7)},
                            pChange              |-> {PyInt(3)} ]),
        u \in {SymX, SymY} }

InitRun ==
    /\ pc = "start"
    /\ holiday \in BOOLEAN
    /\ sessionOk \in BOOLEAN
    /\ master_resp = Unfetched
    /\ oi_resp = Unfetched
    /\ final_map = << >>
    /\ first_map = << >>
    /\ fetches = << >>
    /\ saved = << >>
    /\ written = << >>
    /\ exitCode = << >>
    /\ item = << >>
    /\ keys_to_try = << >>
    /\ result = None

\* the endpoints answer with at most max records between them
InitEnv(OiItems, MasterItems, max) ==
    \E a \in 0..max : \E b \in 0..(max - a) :
        /\ envOi \in ResponsesOf(OiItems, a)
        /\ envMaster \in ResponsesOf(MasterItems, b)

Init == InitRun /\ InitEnv(OiItemsKeys, MasterItemsKeys, MaxRecs)

InitFields == InitRun /\ InitEnv(OiItemsFields, MasterItemsFields, MaxRecs)

-----------------------------------------------------------------------------
(* The run *)

\* list(final_map.values())
final_data == Values(final_map)

\* __main__: is_holiday, sys.exit(0)
HolidaySkip ==
    /\ pc = "start"
    /\ holiday
    /\ pc' = "skipped"
    /\ exitCode' = << 0 >>
    /\ UNCHANGED << holiday, sessionOk, envMaster, envOi, master_resp, oi_resp,
                    final_map, first_map, fetches, saved, written,
                    item, keys_to_try, result >>

\* __main__: not a holiday, get_merged_nse_data is entered
StartScraper ==
    /\ pc = "start"
    /\ ~holiday
    /\ pc' = "session"
    /\ UNCHANGED << holiday, sessionOk, envMaster, envOi, master_resp, oi_resp,
                    final_map, first_map, fetches, saved, written, exitCode,
                    item, keys_to_try, result >>

\* create_session: the cookie request succeeded
CreateSession ==
    /\ pc = "session"
    /\ sessionOk
    /\ pc' = "fetch_master"
    /\ UNCHANGED << holiday, sessionOk, envMaster, envOi, master_resp, oi_resp,
                    final_map, first_map, fetches, saved, written, exitCode,
                    item, keys_to_try, result >>

\* create_session swallowing the exception and returning the session anyway
CreateSessionFailsQuietly ==
    /\ pc = "session"
    /\ ~sessionOk
    /\ pc' = "fetch_master"
    /\ UNCHANGED << holiday, sessionOk, envMaster, envOi, master_resp, oi_resp,
                    final_map, first_map, fetches, saved, written, exitCode,
                    item, keys_to_try, result >>

\* create_session: the cookie request raised, sys.exit(1)
CreateSessionFails ==
    /\ pc = "session"
    /\ ~sessionOk
    /\ pc' = "aborted"
    /\ exitCode' = << 1 >>
    /\ UNCHANGED << holiday, sessionOk, envMaster, envOi, master_resp, oi_resp,
                    final_map, first_map, fetches, saved, written,
                    item, keys_to_try, result >>

\* STEP 1: fetch_data(s, url_master, ...)
FetchMaster ==
    /\ pc = "fetch_master"
    /\ master_resp' = envMaster
    /\ fetches' = Append(fetches, "master")
    /\ pc' = "fetch_oi"
    /\ UNCHANGED << holiday, sessionOk, envMaster, envOi, oi_resp,
                    final_map, first_map, saved, written, exitCode,
                    item, keys_to_try, result >>

\* fetch_data ending the run on a failed request, as create_session does
FetchOiExits ==
    /\ pc = "fetch_oi"
    /\ oi_resp' = envOi
    /\ fetches' = Append(fetches, "oi")
    /\ pc' = IF envOi = Failed THEN "aborted" ELSE "merge"
    /\ exitCode' = IF envOi = Failed THEN << 1 >> ELSE exitCode
    /\ UNCHANGED << holiday, sessionOk, envMaster, envOi, master_resp,
                    final_map, first_map, saved, written,
                    item, keys_to_try, result >>

\* STEP 2: fetch_data(s, url_oi, ...)
FetchOi ==
    /\ pc = "fetch_oi"
    /\ oi_resp' = envOi
    /\ fetches' = Append(fetches, "oi")
    /\ pc' = "merge"
    /\ UNCHANGED << holiday, sessionOk, envMaster, envOi, master_resp,
                    final_map, first_map, saved, written, exitCode,
                    item, keys_to_try, result >>

\* STEP 3 up to the return of get_merged_nse_data
Merge ==
    /\ pc = "merge"
    /\ LET res == MergeResult(master_resp, oi_resp)
       IN  /\ final_map' = res.fm
           /\ master_resp' = [master_resp EXCEPT !.data = res.data]
    /\ pc' = "save"
    /\ UNCHANGED << holiday, sessionOk, envMaster, envOi, oi_resp,
                    first_map, fetches, saved, written, exitCode,
                    item, keys_to_try, result >>

\* save_to_dynamodb(full_data), then "Done." and the normal exit; an exception
\* of boto3 is caught and printed
Save ==
    /\ pc = "save"
    /\ saved' = Append(saved, final_data)
    /\ \E putOk \in BOOLEAN :
          written' = IF putOk THEN Append(written, final_data) ELSE written
    /\ pc' = "done"
    /\ exitCode' = << 0 >>
    /\ UNCHANGED << holiday, sessionOk, envMaster, envOi, master_resp, oi_resp,
                    final_map, first_map, fetches,
                    item, keys_to_try, result >>

Next ==
    \/ HolidaySkip
    \/ StartScraper
    \/ CreateSession
    \/ CreateSessionFails
    \/ FetchMaster
    \/ FetchOi
    \/ Merge
    \/ Save

Spec == Init /\ [][Next]_vars

SpecFields == InitFields /\ [][Next]_vars

-----------------------------------------------------------------------------
(* Runs in which exactly one of the two endpoints is down *)

MasterItemsDegraded ==
    RecordsOver([ underlying |-> {Str(<< >>), SymX, SymY},
                  source     |-> {OI_SPURTS} ])

\* one endpoint fails or answers without data, the other answers with at most
\* MaxRecs records
InitDegraded ==
    /\ InitRun
    /\ \E n \in 0..MaxRecs : \E down \in {Failed, NoData} :
          \/ /\ envOi = down
             /\ envMaster \in {Payload(d) : d \in ListsOf(MasterItemsDegraded, n)}
          \/ /\ envMaster = down
             /\ envOi \in {Payload(d) : d \in ListsOf(OiItemsKeys, n)}

SpecDegraded == InitDegraded /\ [][Next]_vars

-----------------------------------------------------------------------------
(* The merge step run a second time on the same record objects *)

MergeAgain ==
    /\ pc \in {"save", "remerged"}
    /\ LET res == MergeResult(master_resp, oi_resp)
       IN  /\ final_map' = res.fm
           /\ master_resp' = [master_resp EXCEPT !.data = res.data]
    /\ first_map' = final_map
    /\ pc' = "remerged"
    /\ UNCHANGED << holiday, sessionOk, envMaster, envOi, oi_resp,
                    fetches, saved, written, exitCode,
                    item, keys_to_try, result >>

NextRemerge == Next \/ MergeAgain

SpecRemerge == InitFields /\ [][NextRemerge]_vars

-----------------------------------------------------------------------------
(* get_robust_val called on its own *)

\* every string of at most n characters of A
RECURSIVE StringsUpTo(_, _)
StringsUpTo(A, n) ==
    IF n = 0 THEN {<< >>}
    ELSE LET shorter == StringsUpTo(A, n - 1)
         IN  shorter \cup {Append(w, c) : w \in shorter, c \in A}

ResolverValues ==
    {None, PyInt(0), PyInt(5), PyFloat(7)} \cup {Str(w) : w \in StringsUpTo({"1", ",", "-"}, MaxStrLen)}

ResolverFields == {"changeinOpenInterest", "changeInOI"}

ResolverItems == UNION { [D -> ResolverValues] : D \in SUBSET ResolverFields }

ResolverNames == ResolverFields \cup {"chgInOI"}

ResolverKeyLists == [1..1 -> ResolverNames] \cup [1..2 -> ResolverNames]

InitResolver ==
    /\ pc = "resolve"
    /\ item \in ResolverItems
    /\ keys_to_try \in ResolverKeyLists
    /\ result = None
    /\ holiday = FALSE
    /\ sessionOk = FALSE
    /\ envMaster = Unfetched
    /\ envOi = Unfetched
    /\ master_resp = Unfetched
    /\ oi_resp = Unfetched
    /\ final_map = << >>
    /\ first_map = << >>
    /\ fetches = << >>
    /\ saved = << >>
    /\ written = << >>
    /\ exitCode = << >>

Resolve ==
    /\ pc = "resolve"
    /\ result' = get_robust_val(item, keys_to_try)
    /\ pc' = "resolved"
    /\ UNCHANGED << holiday, sessionOk, envMaster, envOi, master_resp, oi_resp,
                    final_map, first_map, fetches, saved, written, exitCode,
                    item, keys_to_try >>

NextResolver == Resolve

SpecResolver == InitResolver /\ [][NextResolver]_vars

-----------------------------------------------------------------------------
(* What the endpoints sent, read off the payloads themselves *)

\* the non-empty values of field f among the records of an answer
SymbolsIn(resp, f) ==
    IF HasData(resp)
    THEN {Get(resp.data[i], f) : i \in {j \in 1..Len(resp.data) : Truthy(Get(resp.data[j], f))}}
    ELSE {}

OiSyms == SymbolsIn(envOi, "symbol")

MasterSyms == SymbolsIn(envMaster, "underlying")

\* the last record of an answer whose field f is sym
LastWith(resp, f, sym) ==
    LET last == CHOOSE i \in 1..Len(resp.data) :
                    /\ Get(resp.data[i], f) = sym
                    /\ \A j \in (i + 1)..Len(resp.data) : Get(resp.data[j], f) # sym
    IN  resp.data[last]

\* the merge loop has ended
Merged == pc \in {"save", "done"}

Entries == {final_map[j] : j \in 1..Len(final_map)}

SourceOf(rec) == Get(rec, "source")

-----------------------------------------------------------------------------
(* C1 *)

\* C1: for every symbol present in both feeds the merged record's
\* openInterest, changeinOpenInterest and pChangeInOpenInterest equal the
\* values extracted from the OI-spurts record, also where that value is 0 and
\* the master record carries another one, and its lastPrice is the master's
\* when that is non-zero and the OI-spurts one otherwise.
C1_PrecedenceLaw ==
    Merged =>
        \A e \in Entries :
            e.k \in OiSyms \cap MasterSyms =>
                LET a == LastWith(envOi, "symbol", e.k)
                    b == LastWith(envMaster, "underlying", e.k)
                    bPrice == get_robust_val(b, << "lastPrice" >>)
                IN  /\ Get(e.v, "openInterest") = get_robust_val(a, OiOpenInterestKeys)
                    /\ Get(e.v, "changeinOpenInterest") = get_robust_val(a, OiChangeKeys)
                    /\ Get(e.v, "pChangeInOpenInterest") = get_robust_val(a, OiPctKeys)
                    /\ Get(e.v, "lastPrice") =
                          IF ~PyEq(bPrice, PyInt(0)) THEN bPrice
                          ELSE get_robust_val(a, OiLastPriceKeys)

-----------------------------------------------------------------------------
(* C2 *)

\* C2: the keys of the final merged map are exactly the non-empty symbols of
\* the OI-spurts records united with the non-empty underlyings of the master
\* records.
C2_UnionLaw ==
    Merged => Keys(final_map) = OiSyms \cup MasterSyms

\* a finished merge of one symbol only the OI feed has and one only the master has
C2_Witness ==
    /\ pc = "done"
    /\ OiSyms \ MasterSyms # {}
    /\ MasterSyms \ OiSyms # {}
    /\ Cardinality(Keys(final_map)) = 2

-----------------------------------------------------------------------------
(* C3 *)

\* C3: every final record carries one of the three source tags: MERGED exactly
\* when its symbol is in both feeds, OI_SPURTS exactly when only in the
\* OI-spurts feed, MASTER_ONLY exactly when only in the master feed, whatever
\* source field the raw records carried.
C3_Provenance ==
    Merged =>
        \A e \in Entries :
            /\ SourceOf(e.v) \in {MERGED, OI_SPURTS, MASTER_ONLY}
            /\ SourceOf(e.v) = MERGED <=> e.k \in OiSyms \cap MasterSyms
            /\ SourceOf(e.v) = OI_SPURTS <=> e.k \in OiSyms \ MasterSyms
            /\ SourceOf(e.v) = MASTER_ONLY <=> e.k \in MasterSyms \ OiSyms

\* a merged record whose master record came with a source field of its own
C3_Witness ==
    /\ pc = "done"
    /\ \E e \in Entries :
          /\ e.k \in OiSyms \cap MasterSyms
          /\ "source" \in DOMAIN LastWith(envMaster, "underlying", e.k)
          /\ SourceOf(e.v) = MERGED

-----------------------------------------------------------------------------
(* C4 *)

\* the endpoint's fetch failed or its payload has no data
Down(resp) == ~HasData(resp)

AllTagged(tag) == \A e \in Entries : SourceOf(e.v) = tag

\* C4: with the session established and exactly one feed failed or without
\* data, the run is not aborted: it never exits with status 1, it can take its
\* next step until it is done, and there the final collection holds exactly
\* the surviving feed's symbols, each tagged as coming from that feed only,
\* and is what save_to_dynamodb was handed.
C4_DegradedFeedCompletes ==
    (~holiday /\ sessionOk /\ Down(envOi) # Down(envMaster)) =>
        /\ exitCode # << 1 >>
        /\ pc # "done" => ENABLED Next
        /\ pc = "done" =>
              /\ exitCode = << 0 >>
              /\ saved = << final_data >>
              /\ Down(envOi) => (Keys(final_map) = MasterSyms /\ AllTagged(MASTER_ONLY))
              /\ Down(envMaster) => (Keys(final_map) = OiSyms /\ AllTagged(OI_SPURTS))

\* a finished run whose OI fetch failed and whose master list had a record
C4_Witness ==
    /\ pc = "done"
    /\ envOi = Failed
    /\ HasData(envMaster)
    /\ Keys(final_map) # {}
    /\ saved # << >>

-----------------------------------------------------------------------------
(* C5 *)

\* the percentage the derivation of the claim gives, in hundredths of a percent
DerivedPct(change, previous, latest) ==
    IF previous > 0 THEN (change * 10000) \div previous
    ELSE IF latest > 0 /\ latest - change > 0
         THEN (change * 10000) \div (latest - change)
         ELSE 0

\* C5: an OI-feed record without a percentage under any alias gets the derived
\* percentage: change / previous * 100 when a previous OI is given and > 0,
\* else change / (latest - change) * 100 when latest > 0 and latest - change
\* > 0, else 0.
C5_PercentDerived ==
    Merged =>
        \A e \in Entries :
            LET a == LastWith(envOi, "symbol", e.k)
            IN  ( /\ SourceOf(e.v) = OI_SPURTS
                  /\ \A i \in 1..Len(OiPctKeys) : ~PresentNonNull(a, OiPctKeys[i]) )
                => 100 * e.v["pChangeInOpenInterest"].n =
                      DerivedPct(get_robust_val(a, OiChangeKeys).n,
                                 get_robust_val(a, << "previousOI", "prevOI" >>).n,
                                 get_robust_val(a, OiOpenInterestKeys).n)

-----------------------------------------------------------------------------
(* C6 *)

\* positions of keys_to_try whose alias is in the record with a non-null value
PresentAt == {i \in 1..Len(keys_to_try) : PresentNonNull(item, keys_to_try[i])}

\* those of them whose value float() accepts once the commas are removed
CoercibleAt == {i \in PresentAt : CoerceOk(item, keys_to_try[i])}

Least(S) == CHOOSE i \in S : \A j \in S : i <= j

\* C6 as stated: the result is the number of the first alias present with a
\* non-null value, an earlier such alias always winning over a later one, and
\* 0 when no alias is present or no coercion succeeds.
C6_FirstPresentAlias ==
    pc = "resolved" =>
        IF PresentAt = {} THEN result = PyInt(0)
        ELSE LET k == keys_to_try[Least(PresentAt)]
             IN  IF CoerceOk(item, k) THEN result = Coerce(item, k)
                 ELSE PyEq(result, PyInt(0))

\* C6, amended: the result is the number of the first alias, in list order,
\* that is present with a non-null value which coerces to a number, a number
\* in the record coming back with its own value; it is 0 when there is none.
C6_FirstCoercibleAlias ==
    pc = "resolved" =>
        IF CoercibleAt = {} THEN result = PyInt(0)
        ELSE LET k == keys_to_try[Least(CoercibleAt)]
             IN  /\ result = Coerce(item, k)
                 /\ result.t = "float"
                 /\ IsNumber(item[k]) => result.n = item[k].n

\* the first alias present holds a string float() rejects and a later alias
\* gave the result
C6_Witness ==
    /\ pc = "resolved"
    /\ PresentAt # {}
    /\ CoercibleAt # {}
    /\ Least(PresentAt) < Least(CoercibleAt)
    /\ result.n # 0

-----------------------------------------------------------------------------
(* C7 *)

CanonicalFields == {"lastPrice", "openInterest", "changeinOpenInterest", "pChangeInOpenInterest"}

\* C7: every record of the final collection carries lastPrice, openInterest,
\* changeinOpenInterest and pChangeInOpenInterest as numbers.
C7_CanonicalSchema ==
    Merged =>
        \A e \in Entries : \A f \in CanonicalFields :
            f \in DOMAIN e.v /\ IsNumber(e.v[f])

-----------------------------------------------------------------------------
(* C8 *)

\* C8: every final record's symbol field is non-empty and equal to the key it
\* was merged under, and no two records of the list carry the same symbol.
C8_SymbolUnique ==
    Merged =>
        /\ \A e \in Entries :
              /\ "symbol" \in DOMAIN e.v
              /\ Truthy(e.v["symbol"])
              /\ e.v["symbol"] = e.k
        /\ \A i, j \in 1..Len(final_data) :
              Get(final_data[i], "symbol") = Get(final_data[j], "symbol") => i = j

-----------------------------------------------------------------------------
(* C9 *)

SameUpToNumberType(m1, m2) ==
    /\ Len(m1) = Len(m2)
    /\ \A j \in 1..Len(m1) :
          /\ m1[j].k = m2[j].k
          /\ DOMAIN m1[j].v = DOMAIN m2[j].v
          /\ \A f \in DOMAIN m1[j].v : PyEq(m1[j].v[f], m2[j].v[f])

-----------------------------------------------------------------------------
(* C10 *)

\* C10: save_to_dynamodb is called at most once and only after both fetches
\* have been made; a run skipped for a holiday (exit 0) or aborted by the
\* session (exit 1) fetches nothing and saves nothing.
C10_RunOrdering ==
    /\ Len(saved) <= 1
    /\ Len(written) <= Len(saved)
    /\ saved # << >> => fetches = << "master", "oi" >>
    /\ (holiday \/ ~sessionOk) => (fetches = << >> /\ saved = << >>)
    /\ pc = "skipped" => (holiday /\ exitCode = << 0 >>)
    /\ pc = "aborted" => (~holiday /\ ~sessionOk /\ exitCode = << 1 >>)
    /\ exitCode = << 1 >> => pc = "aborted"

\* a run that fetched both feeds and then saved
C10_Witness ==
    /\ pc = "done"
    /\ fetches = << "master", "oi" >>
    /\ Len(saved) = 1
    /\ Len(written) = 1

====
